---- MODULE Spec2Model ----
(***************************************************************************)
(* A model of the boolean-evaluator repository:                            *)
(*   - sat_solver.py: the semantic-tableau solver `solve` over a worklist  *)
(*     of goals and an ImmutableMap of literals, as a machine with an      *)
(*     explicit call stack and a heap of ImmutableMap objects;             *)
(*   - boolean_evaluator.py: `eval_expr` over ground expressions.          *)
(***************************************************************************)
EXTENDS Integers, Sequences, FiniteSets, TLC

VARIABLES
    formula,     \* the argument of solve_one
    heap,        \* the ImmutableMap objects allocated so far: ref -> dict
    stack,       \* the activation records of solve, innermost last
    returning,   \* TRUE while a return value travels to the caller
    retval,      \* that return value: a ref into heap, or None
    pc,          \* where solve_one is: "ready", "solving", "done" ("off": not run)
    expression,  \* the argument of eval_expr
    value,       \* what eval_expr returned
    evalPc       \* where the evaluator run is: "ready", "done" ("off": not run)

vars == <<formula, heap, stack, returning, retval, pc, expression, value, evalPc>>

solverVars == <<formula, heap, stack, returning, retval, pc>>
evalVars == <<expression, value, evalPc>>

----------------------------------------------------------------------------
(* Bounds of the model. *)

\* The largest number of And/Or nodes in an enumerated formula or expression.
MaxConn == 2
\* The number of distinct variables the enumerated formulas draw from.
NumVars == 2

\* The variable names used by the tests of sat_solver.py.
VarNames == <<"a", "b", "x", "y", "z">>
Vars == {VarNames[i] : i \in 1..NumVars}

----------------------------------------------------------------------------
(* sat_solver.py: the AST. *)

Literal(variable, is_positive) ==
    [kind |-> "Literal", variable |-> variable, is_positive |-> is_positive]
And(left, right) == [kind |-> "And", left |-> left, right |-> right]
Or(left, right) == [kind |-> "Or", left |-> left, right |-> right]

\* The linked list of goals: Nil is the empty sequence, Cons puts a head first.
Nil == <<>>
Cons(head, tail) == <<head>> \o tail

RECURSIVE FormulasWith(_)
\* Every formula with exactly n And/Or nodes over Vars.
FormulasWith(n) ==
    IF n = 0
    THEN {Literal(v, b) : v \in Vars, b \in BOOLEAN}
    ELSE UNION {UNION {{And(l, r), Or(l, r)} :
                          l \in FormulasWith(k), r \in FormulasWith(n - 1 - k)} :
                   k \in 0..(n - 1)}

sat_tests ==
    << And(Or(Literal("a", TRUE), Literal("b", FALSE)), Literal("b", TRUE)),
       And(Or(Literal("x", TRUE), Literal("y", FALSE)),
           Or(Literal("y", FALSE), Literal("z", TRUE))) >>

unsat_tests == << And(Literal("x", TRUE), Literal("x", FALSE)) >>

\* Formulas beyond the tests: scenarios 1 and 4 of the specification, one whose
\* left disjunct fails only after two bindings, and one whose right disjunct
\* binds again what the failed left disjunct had bound.
MoreFormulas ==
    { Or(And(Literal("x", FALSE), Literal("y", TRUE)),
         And(Literal("x", TRUE), Literal("y", TRUE))),
      And(Literal("a", TRUE), Literal("a", TRUE)),
      Or(And(Literal("a", TRUE), And(Literal("b", TRUE), Literal("a", FALSE))),
         Literal("b", FALSE)),
      Or(And(Literal("a", TRUE), Literal("a", FALSE)),
         And(Literal("b", TRUE), Literal("a", TRUE))) }

RECURSIVE Nest(_)
\* A formula nested n levels deep, And and Or in turn, that makes solve
\* backtrack at every Or.
Nest(n) ==
    IF n = 0 THEN Literal("b", TRUE)
    ELSE IF n % 2 = 0 THEN And(Literal("a", FALSE), Nest(n - 1))
    ELSE Or(And(Nest(n - 1), Literal("a", TRUE)), Nest(n - 1))

DeepFormula == Nest(2 * MaxConn + 2)

\* The formulas of the tests and the ones above.
TestFormulas ==
    {sat_tests[i] : i \in DOMAIN sat_tests}
    \cup {unsat_tests[i] : i \in DOMAIN unsat_tests}
    \cup MoreFormulas
    \cup {DeepFormula}

\* f is a test formula or has at most MaxConn And/Or nodes over Vars.
IsInputFormula(f) ==
    \/ f \in FormulasWith(0)
    \/ \E k \in 0..(MaxConn - 1) : \E j \in 0..(MaxConn - 1 - k) :
          \E l \in FormulasWith(k), r \in FormulasWith(j) : f \in {And(l, r), Or(l, r)}
    \/ f \in TestFormulas

----------------------------------------------------------------------------
(* sat_solver.py: ImmutableMap.  An object is a ref (an index of heap); its *)
(* dict is heap[ref], a function from the bound variables to booleans.     *)

None == 0

EmptyDict == [k \in {} |-> TRUE]

\* ImmutableMap(): a new object over a new, empty dict.
ImmutableMap(h) == [heap |-> Append(h, EmptyDict), ref |-> Len(h) + 1]

\* A variant of ImmutableMap.add that sets the key in the dict of the map itself.
ImmutableMap_add_InPlace(h, m, key, val) ==
    LET new_mapping == [k \in DOMAIN h[m] \cup {key} |->
                            IF k = key THEN val ELSE h[m][k]]
    IN  [heap |-> [h EXCEPT ![m] = new_mapping], ref |-> m]

\* ImmutableMap.add: copies the dict, sets the key in the copy, wraps the copy.
ImmutableMap_add(h, m, key, val) ==
    LET new_mapping == [k \in DOMAIN h[m] \cup {key} |->
                            IF k = key THEN val ELSE h[m][k]]
    IN  [heap |-> Append(h, new_mapping), ref |-> Len(h) + 1]

contains(h, m, key) == key \in DOMAIN h[m]

get(h, m, key) == h[m][key]

\* A variant of add_literal that always adds, overwriting a binding.
add_literal_Overwrite(h, immutable_map, variable, boolean) ==
    ImmutableMap_add(h, immutable_map, variable, boolean)

\* A variant of add_literal that overlooks the conflict and keeps the map.
add_literal_NoConflict(h, immutable_map, variable, boolean) ==
    IF contains(h, immutable_map, variable)
    THEN [heap |-> h, ref |-> immutable_map]
    ELSE ImmutableMap_add(h, immutable_map, variable, boolean)

add_literal(h, immutable_map, variable, boolean) ==
    IF contains(h, immutable_map, variable)
    THEN IF get(h, immutable_map, variable) = boolean
         THEN [heap |-> h, ref |-> immutable_map]
         ELSE [heap |-> h, ref |-> None]
    ELSE ImmutableMap_add(h, immutable_map, variable, boolean)

----------------------------------------------------------------------------
(* sat_solver.py: solve, one activation record per call.  A record holds   *)
(* the call's arguments, the line it is at ("start": entered; "L169",      *)
(* "L172", "L175", "L178": inside the recursive call of that line), and    *)
(* entry, the bindings its literals argument had when it was called (a     *)
(* history field: nothing reads it to decide a step).  A call that returns *)
(* sets returning and retval; its record stays on top until the caller's   *)
(* next step removes it.                                                   *)

Frame(goals, literals, h) ==
    [goals |-> goals, literals |-> literals, at |-> "start", entry |-> h[literals]]

Top == stack[Len(stack)]
Caller == stack[Len(stack) - 1]
Pop == SubSeq(stack, 1, Len(stack) - 1)
\* The top record moves to line `at` and the callee's record goes above it.
Call(at, callee) == [stack EXCEPT ![Len(stack)].at = at] \o <<callee>>

\* A call has been entered and has not branched yet.
Running == pc = "solving" /\ ~returning /\ stack # <<>> /\ Top.at = "start"
\* A call has returned into a caller that waits at one of the lines `ats`.
ReturnedTo(ats) ==
    pc = "solving" /\ returning /\ Len(stack) >= 2 /\ Caller.at \in ats

\* lines 182-183: solve(Cons(formula, Nil()), ImmutableMap())
solve_one ==
    /\ pc = "ready"
    /\ LET m == ImmutableMap(heap)
       IN  /\ heap' = m.heap
           /\ stack' = <<Frame(Cons(formula, Nil), m.ref, m.heap)>>
    /\ pc' = "solving"
    /\ UNCHANGED <<formula, returning, retval, evalVars>>

\* lines 160-161: the list of goals is empty, the literals are the solution.
solve_Nil ==
    /\ Running
    /\ Top.goals = Nil
    /\ returning' = TRUE
    /\ retval' = Top.literals
    /\ UNCHANGED <<formula, heap, stack, pc, evalVars>>

\* A variant of lines 164-169 that goes on with the literals it was given.
solve_Literal_DropResult ==
    /\ Running
    /\ Top.goals # Nil
    /\ Head(Top.goals).kind = "Literal"
    /\ LET result == add_literal(heap, Top.literals,
                                 Head(Top.goals).variable, Head(Top.goals).is_positive)
       IN  /\ heap' = result.heap
           /\ IF result.ref = None
              THEN /\ returning' = TRUE
                   /\ retval' = None
                   /\ UNCHANGED stack
              ELSE /\ stack' = Call("L169",
                                    Frame(Tail(Top.goals), Top.literals, result.heap))
                   /\ UNCHANGED <<returning, retval>>
    /\ UNCHANGED <<formula, pc, evalVars>>

\* lines 164-169: the head is a Literal.
solve_Literal ==
    /\ Running
    /\ Top.goals # Nil
    /\ Head(Top.goals).kind = "Literal"
    /\ LET result == add_literal(heap, Top.literals,
                                 Head(Top.goals).variable, Head(Top.goals).is_positive)
       IN  /\ heap' = result.heap
           /\ IF result.ref = None
              THEN /\ returning' = TRUE
                   /\ retval' = None
                   /\ UNCHANGED stack
              ELSE /\ stack' = Call("L169",
                                    Frame(Tail(Top.goals), result.ref, result.heap))
                   /\ UNCHANGED <<returning, retval>>
    /\ UNCHANGED <<formula, pc, evalVars>>

\* A variant of lines 171-172 that forgets the right conjunct.
solve_And_DropRight ==
    /\ Running
    /\ Top.goals # Nil
    /\ Head(Top.goals).kind = "And"
    /\ stack' = Call("L172",
                     Frame(Cons(Head(Top.goals).left, Tail(Top.goals)),
                           Top.literals, heap))
    /\ UNCHANGED <<formula, heap, returning, retval, pc, evalVars>>

\* A variant of lines 171-172 that recurses on the goals it was given; Python
\* ends the recursion with a RecursionError once the stack is too deep.
solve_And_SameGoals ==
    /\ Running
    /\ Top.goals # Nil
    /\ Head(Top.goals).kind = "And"
    /\ IF Len(stack) < 2 * (MaxConn + 2)
       THEN stack' = Call("L172", Frame(Top.goals, Top.literals, heap)) /\ pc' = pc
       ELSE stack' = stack /\ pc' = "RecursionError"
    /\ UNCHANGED <<formula, heap, returning, retval, evalVars>>

\* lines 171-172: the head is an And.
solve_And ==
    /\ Running
    /\ Top.goals # Nil
    /\ Head(Top.goals).kind = "And"
    /\ stack' = Call("L172",
                     Frame(Cons(Head(Top.goals).left,
                                Cons(Head(Top.goals).right, Tail(Top.goals))),
                           Top.literals, heap))
    /\ UNCHANGED <<formula, heap, returning, retval, pc, evalVars>>

\* A variant of lines 174-175 that starts with the right side.
solve_Or_RightFirst ==
    /\ Running
    /\ Top.goals # Nil
    /\ Head(Top.goals).kind = "Or"
    /\ stack' = Call("L175",
                     Frame(Cons(Head(Top.goals).right, Tail(Top.goals)),
                           Top.literals, heap))
    /\ UNCHANGED <<formula, heap, returning, retval, pc, evalVars>>

\* lines 174-175: the head is an Or; the left side is solved first.
solve_Or ==
    /\ Running
    /\ Top.goals # Nil
    /\ Head(Top.goals).kind = "Or"
    /\ stack' = Call("L175",
                     Frame(Cons(Head(Top.goals).left, Tail(Top.goals)),
                           Top.literals, heap))
    /\ UNCHANGED <<formula, heap, returning, retval, pc, evalVars>>

\* A variant of lines 177-180 that gives up when the left side fails.
solve_Or_left_side_NoRight ==
    /\ ReturnedTo({"L175"})
    /\ stack' = Pop
    /\ UNCHANGED <<formula, heap, returning, retval, pc, evalVars>>

\* lines 177-180: the call of line 175 returned left_side.
solve_Or_left_side ==
    /\ ReturnedTo({"L175"})
    /\ IF retval = None
       THEN /\ stack' = [Pop EXCEPT ![Len(Pop)].at = "L178"]
                        \o <<Frame(Cons(Head(Caller.goals).right, Tail(Caller.goals)),
                                   Caller.literals, heap)>>
            /\ returning' = FALSE
            /\ retval' = None
       ELSE /\ stack' = Pop
            /\ UNCHANGED <<returning, retval>>
    /\ UNCHANGED <<formula, heap, pc, evalVars>>

\* lines 169, 172, 178: `return solve(...)` hands the callee's value on.
solve_return ==
    /\ ReturnedTo({"L169", "L172", "L178"})
    /\ stack' = Pop
    /\ UNCHANGED <<formula, heap, returning, retval, pc, evalVars>>

\* line 183: solve_one returns what the outermost solve returned.
solve_one_return ==
    /\ pc = "solving" /\ returning /\ Len(stack) = 1
    /\ pc' = "done"
    /\ stack' = <<>>
    /\ returning' = FALSE
    /\ UNCHANGED <<formula, heap, retval, evalVars>>

Done == pc = "done"

----------------------------------------------------------------------------
(* boolean_evaluator.py.  An expression is a Python boolean or an And/Or   *)
(* object; eval_expr returns a Python value: True, False or None.          *)

PyTrue == "True"
PyFalse == "False"
PyNone == "None"

Bool(b) == [kind |-> "Bool", b |-> b]

RECURSIVE ExprsWith(_)
\* Every ground expression with exactly n And/Or nodes.
ExprsWith(n) ==
    IF n = 0
    THEN {Bool(TRUE), Bool(FALSE)}
    ELSE UNION {UNION {{And(l, r), Or(l, r)} :
                          l \in ExprsWith(k), r \in ExprsWith(n - 1 - k)} :
                   k \in 0..(n - 1)}

true_tests ==
    << And(Bool(TRUE), Bool(TRUE)),
       Or(Bool(TRUE), Bool(TRUE)),
       Or(Bool(TRUE), Bool(FALSE)),
       Or(Bool(FALSE), Bool(TRUE)),
       Or(And(Bool(FALSE), Bool(TRUE)), And(Bool(TRUE), Bool(TRUE))) >>

false_tests ==
    << And(Bool(TRUE), Bool(FALSE)),
       And(Bool(FALSE), Bool(TRUE)),
       And(Bool(FALSE), Bool(FALSE)),
       Or(Bool(FALSE), Bool(FALSE)),
       And(Or(Bool(TRUE), Bool(FALSE)), Or(Bool(FALSE), Bool(FALSE))) >>

Exprs ==
    UNION {ExprsWith(n) : n \in 0..MaxConn}
    \cup {true_tests[i] : i \in DOMAIN true_tests}
    \cup {false_tests[i] : i \in DOMAIN false_tests}

RECURSIVE eval_expr(_)
\* A branch that ends without a return statement returns None.
eval_expr(e) ==
    IF e = Bool(TRUE) THEN PyTrue
    ELSE IF e = Bool(FALSE) THEN PyFalse
    ELSE IF e.kind = "And"
         THEN IF eval_expr(e.left) = PyTrue
              THEN eval_expr(e.right)
              ELSE PyNone
         ELSE IF e.kind = "Or"
              THEN IF eval_expr(e.left) = PyFalse
                   THEN eval_expr(e.right)
                   ELSE PyTrue
              ELSE PyNone

\* One test of run_tests: eval_expr(test).
run_eval ==
    /\ evalPc = "ready"
    /\ value' = eval_expr(expression)
    /\ evalPc' = "done"
    /\ UNCHANGED <<expression, solverVars>>

----------------------------------------------------------------------------
(* The specifications. *)

Init ==
    /\ IsInputFormula(formula)
    /\ heap = <<>>
    /\ stack = <<>>
    /\ returning = FALSE
    /\ retval = None
    /\ pc = "ready"
    /\ expression = Bool(TRUE)
    /\ value = "unset"
    /\ evalPc = "off"

Next ==
    \/ solve_one
    \/ solve_Nil
    \/ solve_Literal
    \/ solve_And
    \/ solve_Or
    \/ solve_Or_left_side
    \/ solve_return
    \/ solve_one_return

Spec == Init /\ [][Next]_vars

\* solve_one is sequential code: a step that can be taken is taken.
FairSpec == Spec /\ WF_vars(Next)

InitEval ==
    /\ expression \in Exprs
    /\ value = "unset"
    /\ evalPc = "ready"
    /\ formula = Literal("a", TRUE)
    /\ heap = <<>>
    /\ stack = <<>>
    /\ returning = FALSE
    /\ retval = None
    /\ pc = "off"

NextEval == run_eval

SpecEval == InitEval /\ [][NextEval]_vars

----------------------------------------------------------------------------
(* Propositional semantics, independent of the solver: what the claims     *)
(* about solve_one are measured against.                                   *)

RECURSIVE VarsOf(_)
VarsOf(f) ==
    IF f.kind = "Literal" THEN {f.variable}
    ELSE VarsOf(f.left) \cup VarsOf(f.right)

RECURSIVE LiteralsOf(_)
\* The literal occurrences of f, as (variable, polarity) pairs.
LiteralsOf(f) ==
    IF f.kind = "Literal" THEN {<<f.variable, f.is_positive>>}
    ELSE LiteralsOf(f.left) \cup LiteralsOf(f.right)

RECURSIVE ConnCount(_)
\* The number of And/Or nodes of f.
ConnCount(f) ==
    IF f.kind = "Literal" THEN 0
    ELSE 1 + ConnCount(f.left) + ConnCount(f.right)

RECURSIVE ConnCountAll(_)
\* The number of And/Or nodes across all goals of a worklist.
ConnCountAll(goals) ==
    IF goals = Nil THEN 0 ELSE ConnCount(Head(goals)) + ConnCountAll(Tail(goals))

RECURSIVE Holds(_, _)
\* The truth value of f under the total valuation val.
Holds(f, val) ==
    IF f.kind = "Literal" THEN val[f.variable] = f.is_positive
    ELSE IF f.kind = "And" THEN Holds(f.left, val) /\ Holds(f.right, val)
    ELSE Holds(f.left, val) \/ Holds(f.right, val)

Valuations(f) == [VarsOf(f) -> BOOLEAN]

Satisfiable(f) == \E val \in Valuations(f) : Holds(f, val)

\* The valuation val gives every variable the dict d binds the value d binds it to.
Agrees(val, d) == \A k \in DOMAIN d : k \in DOMAIN val /\ val[k] = d[k]

RECURSIVE Branches(_)
\* The tableau branches of f, leftmost first: each a sequence of literals that
\* together make f true.
Branches(f) ==
    IF f.kind = "Literal" THEN << <<f>> >>
    ELSE LET L == Branches(f.left)
             R == Branches(f.right)
         IN  IF f.kind = "Or" THEN L \o R
             ELSE [n \in 1..(Len(L) * Len(R)) |->
                       L[((n - 1) \div Len(R)) + 1] \o R[((n - 1) % Len(R)) + 1]]

RECURSIVE BranchesAll(_)
\* The branches of a worklist: of the conjunction of its goals, in order.
BranchesAll(goals) ==
    IF goals = Nil THEN << <<>> >>
    ELSE LET L == Branches(Head(goals))
             R == BranchesAll(Tail(goals))
         IN  [n \in 1..(Len(L) * Len(R)) |->
                 L[((n - 1) \div Len(R)) + 1] \o R[((n - 1) % Len(R)) + 1]]

\* The branch b contradicts neither itself nor the dict d.
Consistent(b, d) ==
    /\ \A i, j \in DOMAIN b :
          b[i].variable = b[j].variable => b[i].is_positive = b[j].is_positive
    /\ \A i \in DOMAIN b :
          b[i].variable \in DOMAIN d => d[b[i].variable] = b[i].is_positive

\* The dict d extended with the literals of the branch b (consistent with d).
Extend(d, b) ==
    [k \in DOMAIN d \cup {b[i].variable : i \in DOMAIN b} |->
        IF k \in DOMAIN d THEN d[k]
        ELSE b[CHOOSE i \in DOMAIN b : b[i].variable = k].is_positive]

\* The indices of the branches of the worklist that are consistent with d.
Open(goals, d) ==
    LET B == BranchesAll(goals) IN {n \in DOMAIN B : Consistent(B[n], d)}

Min(S) == CHOOSE n \in S : \A m \in S : n <= m

\* The bindings after the leftmost open branch of the worklist, from d.
FirstModel(goals, d) == Extend(d, BranchesAll(goals)[Min(Open(goals, d))])

----------------------------------------------------------------------------
(* Claims about solve_one and solve, checked under Spec.                   *)

\* C1 (soundness): when solve_one returns an assignment, every total valuation
\* of the formula's variables that agrees with the returned bindings (unbound
\* variables taking either value) makes the formula true.
C1_Soundness ==
    (Done /\ retval # None) =>
        \A val \in Valuations(formula) :
            Agrees(val, heap[retval]) => Holds(formula, val)

\* solve_one returned a partial assignment: some variable of the formula is
\* left unbound, and both of its values satisfy the formula.
C1_Witness ==
    /\ Done
    /\ retval # None
    /\ DOMAIN heap[retval] # VarsOf(formula)
    /\ Cardinality({val \in Valuations(formula) : Agrees(val, heap[retval])}) >= 2

\* C2 (completeness): whenever some valuation satisfies the formula, solve_one
\* returns an assignment; it returns None only for an unsatisfiable formula.
C2_Completeness ==
    (Done /\ Satisfiable(formula)) => retval # None

\* solve_one returned an assignment for a disjunction whose left side alone is
\* unsatisfiable.
C2_Witness ==
    /\ Done
    /\ formula.kind = "Or"
    /\ ~Satisfiable(formula.left)
    /\ Satisfiable(formula.right)
    /\ retval # None

\* The step of a call whose head goal is an Or: it calls solve on the left
\* disjunct followed by the tail, with the literals it was given.
C3_LeftFirst ==
    (Running /\ Top.goals # Nil /\ Head(Top.goals).kind = "Or") =>
        /\ Len(stack') = Len(stack) + 1
        /\ stack'[Len(stack')].goals = Cons(Head(Top.goals).left, Tail(Top.goals))
        /\ stack'[Len(stack')].literals = Top.literals
        /\ stack'[Len(stack)].at = "L175"

\* The step after the left attempt returned: a result other than None is
\* returned as it is; after None the right disjunct followed by the tail is tried.
C3_LeftWins ==
    ReturnedTo({"L175"}) =>
        IF retval # None
        THEN returning' /\ retval' = retval /\ stack' = Pop
        ELSE /\ ~returning'
             /\ Len(stack') = Len(stack)
             /\ stack'[Len(stack')].goals =
                    Cons(Head(Caller.goals).right, Tail(Caller.goals))

\* A call enters line 178 (the right attempt) only from a left attempt that
\* returned None.
C3_RightOnlyAfterNone ==
    (\E i \in DOMAIN stack' :
        stack'[i].at = "L178" /\ (i \notin DOMAIN stack \/ stack[i].at # "L178"))
    => (ReturnedTo({"L175"}) /\ retval = None)

\* The result of solve_one is the bindings of the leftmost open branch.
C3_FirstBranch ==
    Done =>
        IF Open(<<formula>>, EmptyDict) = {}
        THEN retval = None
        ELSE retval # None /\ heap[retval] = FirstModel(<<formula>>, EmptyDict)

\* The two examples: (a || !b) && b gives {a: true, b: true} and
\* (!x && y) || (x && y) gives {x: false, y: true}.
C3_Examples ==
    /\ (Done /\ formula = sat_tests[1]) =>
           (retval # None /\ heap[retval] = [k \in {"a", "b"} |-> TRUE])
    /\ (Done /\ formula = Or(And(Literal("x", FALSE), Literal("y", TRUE)),
                            And(Literal("x", TRUE), Literal("y", TRUE)))) =>
           (retval # None /\ heap[retval] = [k \in {"x", "y"} |-> k = "y"])

\* C3 (left-biased first model): at an Or goal solve returns the left attempt's
\* result whenever it is not None and explores the right disjunct only after
\* the left attempt returned None, so that solve_one returns the assignment of
\* the first successful branch in depth-first, left-before-right order.
C3_LeftBiased ==
    /\ [][C3_LeftFirst]_vars
    /\ [][C3_LeftWins]_vars
    /\ [][C3_RightOnlyAfterNone]_vars
    /\ []C3_FirstBranch
    /\ []C3_Examples

\* solve_one returned the left branch's model of (!x && y) || (x && y), a
\* formula whose right branch has another model.
C3_Witness ==
    /\ Done
    /\ formula = Or(And(Literal("x", FALSE), Literal("y", TRUE)),
                    And(Literal("x", TRUE), Literal("y", TRUE)))
    /\ retval # None
    /\ heap[retval] = [k \in {"x", "y"} |-> k = "y"]

\* add_literal on the map m of the heap h, the variable x and the boolean v:
\* None on a conflict, m itself on a repeated binding, otherwise a new map
\* that adds x -> v to the bindings of m and leaves every map of h as it was.
C4_Cases(h, m, x, v) ==
    LET r == add_literal(h, m, x, v)
    IN  /\ (x \in DOMAIN h[m] /\ h[m][x] # v) => r.ref = None
        /\ (x \in DOMAIN h[m] /\ h[m][x] = v) => (r.ref = m /\ r.heap = h)
        /\ (x \notin DOMAIN h[m]) =>
              /\ r.ref # None
              /\ r.ref \notin DOMAIN h
              /\ r.ref \in DOMAIN r.heap
              /\ DOMAIN r.heap[r.ref] = DOMAIN h[m] \cup {x}
              /\ r.heap[r.ref][x] = v
              /\ \A k \in DOMAIN h[m] : r.heap[r.ref][k] = h[m][k]
              /\ \A i \in DOMAIN h : r.heap[i] = h[i]

\* What solve did with the literal at the head of the goals of the call i.
C4_Applied(i) ==
    LET x == Head(stack[i].goals).variable
        v == Head(stack[i].goals).is_positive
        m == stack[i].literals
    IN  /\ (stack[i].at = "L169" /\ i < Len(stack) /\ x \in DOMAIN stack[i].entry) =>
              (stack[i].entry[x] = v /\ stack[i + 1].literals = m)
        /\ (stack[i].at = "L169" /\ i < Len(stack) /\ x \notin DOMAIN stack[i].entry) =>
              /\ stack[i + 1].literals # m
              /\ heap[stack[i + 1].literals] =
                     [k \in DOMAIN stack[i].entry \cup {x} |->
                         IF k = x THEN v ELSE stack[i].entry[k]]
              /\ heap[m] = stack[i].entry
        /\ (stack[i].at = "start" /\ i = Len(stack) /\ returning) =>
              (retval = None /\ x \in DOMAIN heap[m] /\ heap[m][x] # v)

\* C4 (conflict correctness of add_literal): for every map of the heap, every
\* variable and every boolean, a binding to the opposite boolean gives None, a
\* binding to the same boolean gives the map itself, and an unbound variable
\* gives a new map with that one binding added and no other binding added,
\* removed or altered; and this is what each Literal step of solve obtained.
C4_AddLiteral ==
    /\ \A m \in DOMAIN heap : \A x \in Vars \cup VarsOf(formula) : \A v \in BOOLEAN :
          C4_Cases(heap, m, x, v)
    /\ \A i \in DOMAIN stack :
          (stack[i].goals # Nil /\ Head(stack[i].goals).kind = "Literal") =>
              C4_Applied(i)

\* A Literal step has just met a conflict, on a map that an earlier Literal
\* step had made by adding a binding.
C4_Witness ==
    /\ pc = "solving" /\ returning /\ retval = None
    /\ Top.at = "start"
    /\ Top.goals # Nil
    /\ Head(Top.goals).kind = "Literal"
    /\ Head(Top.goals).variable \in DOMAIN heap[Top.literals]
    /\ heap[Top.literals][Head(Top.goals).variable] # Head(Top.goals).is_positive
    /\ Cardinality(DOMAIN heap[Top.literals]) >= 2

\* C5 (termination): every run of solve_one ends, with an assignment or None.
C5_Termination == <>(Done /\ (retval = None \/ retval \in DOMAIN heap))

\* solve_one has ended, with an assignment, on the deeply nested formula.
C5_Witness ==
    /\ Done
    /\ formula = DeepFormula
    /\ retval \in DOMAIN heap

\* The recursive calls in progress: the call i is inside the call i + 1 it made.
Calls == 1..(Len(stack) - 1)

\* C8 as stated (termination measure): the worklist passed to every recursive
\* call of solve has exactly one And/Or node less than the caller's worklist.
C8_ExactlyOneLess ==
    \A i \in Calls :
        ConnCountAll(stack[i + 1].goals) = ConnCountAll(stack[i].goals) - 1

\* C8 as amended: the worklist passed on has exactly one And/Or node less at an
\* And head; at an Or head it has one less and those of the other disjunct
\* less, in each of the two calls; at a Literal head it has as many, and is one
\* goal shorter.
C8_Measure ==
    \A i \in Calls :
        LET head == Head(stack[i].goals)
            before == ConnCountAll(stack[i].goals)
            after == ConnCountAll(stack[i + 1].goals)
        IN  /\ stack[i].at = "L169" =>
                  (after = before /\ Len(stack[i + 1].goals) = Len(stack[i].goals) - 1)
            /\ stack[i].at = "L172" => after = before - 1
            /\ stack[i].at = "L175" => after = before - 1 - ConnCount(head.right)
            /\ stack[i].at = "L178" => after = before - 1 - ConnCount(head.left)
            /\ stack[i].at \in {"L169", "L172", "L175", "L178"}

\* solve is inside an And call, inside the right attempt of an Or whose left
\* disjunct has an And/Or node, and inside a Literal call.
C8_Witness ==
    /\ \E i \in Calls : stack[i].at = "L172"
    /\ \E i \in Calls :
          stack[i].at = "L178" /\ ConnCount(Head(stack[i].goals).left) >= 1
    /\ \E i \in Calls : stack[i].at = "L169"

\* The dict d is the dict e extended with the literals of one open branch of
\* the worklist.
AlongBranch(d, e, goals) ==
    \E n \in Open(goals, e) : d = Extend(e, BranchesAll(goals)[n])

\* C9 (backtracking on persistent stores): the map given to a call of solve
\* keeps the bindings it had when the call started, for as long as the call
\* lasts; the right attempt of an Or goal runs on the right disjunct followed by
\* the tail with the map the Or call was given, whose bindings are those held
\* before the left attempt; and what the right attempt returns binds nothing
\* beyond those bindings and the literals of one branch of its own goals.
C9_Backtracking ==
    /\ \A i \in DOMAIN stack : heap[stack[i].literals] = stack[i].entry
    /\ \A i \in Calls :
          stack[i].at = "L178" =>
              /\ stack[i + 1].goals =
                     Cons(Head(stack[i].goals).right, Tail(stack[i].goals))
              /\ stack[i + 1].literals = stack[i].literals
              /\ stack[i + 1].entry = stack[i].entry
    /\ (ReturnedTo({"L178"}) /\ retval # None) =>
          AlongBranch(heap[retval], Caller.entry, Top.goals)

\* The right attempt of an Or goal has succeeded after a left attempt that had
\* made a binding, and that binding is not in the result.
C9_Witness ==
    /\ ReturnedTo({"L178"})
    /\ retval # None
    /\ \E r \in DOMAIN heap : \E k \in DOMAIN heap[r] : k \notin DOMAIN heap[retval]

\* C10 (store growth and partial assignment): the map a successful call of
\* solve returns has every binding of the map the call was given, and its
\* other bindings are the literals of one branch of the call's goals; so the
\* result of solve_one binds only variables of the formula, each to the polarity
\* of one of its literal occurrences, and binds no variable off that branch.
C10_StoreGrowth ==
    /\ (pc = "solving" /\ returning /\ retval # None) =>
          /\ \A k \in DOMAIN Top.entry :
                k \in DOMAIN heap[retval] /\ heap[retval][k] = Top.entry[k]
          /\ AlongBranch(heap[retval], Top.entry, Top.goals)
    /\ (Done /\ retval # None) =>
          /\ \A k \in DOMAIN heap[retval] :
                <<k, heap[retval][k]>> \in LiteralsOf(formula)
          /\ AlongBranch(heap[retval], EmptyDict, <<formula>>)

\* solve_one has returned an assignment with two bindings that leaves a
\* variable of the formula out.
C10_Witness ==
    /\ Done
    /\ retval # None
    /\ Cardinality(DOMAIN heap[retval]) >= 2
    /\ DOMAIN heap[retval] # VarsOf(formula)

----------------------------------------------------------------------------
(* Claims about eval_expr, checked under SpecEval.                         *)

RECURSIVE Denote(_)
\* The truth value of a ground expression under the standard semantics.
Denote(e) ==
    IF e.kind = "Bool" THEN e.b
    ELSE IF e.kind = "And" THEN Denote(e.left) /\ Denote(e.right)
    ELSE Denote(e.left) \/ Denote(e.right)

\* Python's truthiness of a value eval_expr can return.
Truthy(v) == v = PyTrue

\* C6 (ground evaluator correctness): what eval_expr returns is truthy exactly
\* when the expression is true under the standard semantics.
C6_EvalCorrect ==
    evalPc = "done" => (Truthy(value) <=> Denote(expression))

\* C7: eval_expr returns True or False, never None.
C7_EvalReturnsBoolean ==
    evalPc = "done" => value \in {PyTrue, PyFalse}

====
